---------------------------- MODULE Spec2Model ----------------------------
(***************************************************************************)
(* Model of the request-authentication core of crates.io:                  *)
(*   src/src/controllers/util.rs  verify_origin, authenticate              *)
(*   src/src/middleware/app.rs    AppMiddleware (before/after), app()      *)
(*                                                                         *)
(* Spec    one call of authenticate() on an arbitrary request, with the    *)
(*         results of the collaborators (db_conn, find_by_api_token)       *)
(*         chosen nondeterministically.                                    *)
(* SpecMw  before()/after()/app() of AppMiddleware on concurrently         *)
(*         processed requests, in every interleaving.                      *)
(***************************************************************************)
EXTENDS Integers, Sequences, FiniteSets, TLC

VARIABLES
    request,      \* headers and connection host of the request under authenticate()
    extensions,   \* its request-scoped storage: the TrustedUserId slot
    returned,     \* <<>> before authenticate() returns, <<its return value>> after
    calls,        \* collaborator calls made by authenticate(), in order
    metadata,     \* log_request custom metadata recorded on the request, in order
    has_app,      \* per request: its extensions hold an Arc<App>
    alive,        \* per request: its thread has not panicked
    last,         \* per request: the last middleware call and what it gave
    phase,        \* per request: "fresh", "inside" (before() ran last), "finished"
    strong_count  \* reference count of the shared Arc<App>

authVars == <<request, extensions, returned, calls, metadata>>
mwVars == <<has_app, alive, last, phase, strong_count>>
vars == <<request, extensions, returned, calls, metadata,
          has_app, alive, last, phase, strong_count>>

----------------------------------------------------------------------------
(* Bounds *)

MaxOrigins == 2
NumRequests == 2

----------------------------------------------------------------------------
(* Option<T> and Result<T, E> *)

None == <<>>
Some(x) == <<x>>
is_some(o) == o # <<>>
unwrap(o) == o[1]

Ok(v) == [ok |-> TRUE, val |-> v]
Err(e) == [ok |-> FALSE, err |-> e]

----------------------------------------------------------------------------
(* Header values: bytes that either are visible ASCII text or are not. *)

Text(s) == [text |-> TRUE, s |-> s]
Opaque == [text |-> FALSE, s |-> "\\xff"]

\* HeaderValue::to_str(): Ok(text) or a decode error
to_str(h) == IF h.text THEN Some(h.s) ELSE None

\* h.to_str().unwrap_or_default()
to_str_or_default(h) == IF is_some(to_str(h)) THEN unwrap(to_str(h)) ELSE ""

\* {:?} of a header value
debug(h) == "\"" \o h.s \o "\""

----------------------------------------------------------------------------
(* util::errors: an error is its causal chain, outermost classification     *)
(* first and root cause last.                                               *)

internal(msg) == <<[kind |-> "Internal", msg |-> msg]>>
forbidden == <<[kind |-> "Forbidden", msg |-> ""]>>

\* e.chain(outer): outer becomes the classification, e its cause
chain(e, outer) == outer \o e

\* Result::chain_error(|| outer)
chain_error(res, outer) == IF res.ok THEN res ELSE Err(chain(res.err, outer))

\* e.is::<T>(): the type of the error itself, not of a cause beneath it
is_type(e, T) == e[1].kind = T

classification(e) == e[1].kind
root_cause(e) == e[Len(e)]

Revoked == <<[kind |-> "InsecurelyGeneratedTokenRevoked", msg |-> ""]>>
NotFound == <<[kind |-> "NotFound", msg |-> ""]>>
DatabaseError == <<[kind |-> "DatabaseError", msg |-> "connection reset"]>>
PoolTimeout == <<[kind |-> "PoolError", msg |-> "timed out"]>>

----------------------------------------------------------------------------
(* The requests and collaborator results the model draws from. *)

Hosts == { [kind |-> "Name", a |-> "localhost", port |-> 0],
           [kind |-> "Name", a |-> "crates.io", port |-> 0],
           [kind |-> "Socket", a |-> "127.0.0.1", port |-> 8888] }
ForwardedHosts == { None, Some(Text("crates.io")), Some(Opaque) }
ForwardedProtos == { None, Some(Text("https")), Some(Opaque) }
OriginValues == { Text("https://crates.io"), Text("http://localhost"),
                  Text("http://127.0.0.1:8888"), Opaque }
Authorizations == { None, Some(Text("cio-token-a")), Some(Text("")), Some(Opaque) }
TrustedUserIds == { None, Some(42) }
ApiTokens == { [id |-> 99, user_id |-> 7], [id |-> 5, user_id |-> 42] }

SeqsUpTo(S, n) == UNION { [1..k -> S] : k \in 0..n }

Requests == [ host : Hosts,
              forwarded_host : ForwardedHosts,
              forwarded_proto : ForwardedProtos,
              origin : SeqsUpTo(OriginValues, MaxOrigins),
              authorization : Authorizations ]
Extensions == [ trusted : TrustedUserIds ]

ConnResults == { Ok("conn"), Err(PoolTimeout) }
LookupErrors == { Revoked, NotFound, DatabaseError }
LookupResults == { Ok(t) : t \in ApiTokens } \cup { Err(e) : e \in LookupErrors }

----------------------------------------------------------------------------
(* verify_origin *)

\* SocketAddr::to_string()
socket_to_string(h) == h.a \o ":" \o ToString(h.port)

\* match req.host() { Name(a) => "http://{a}", Socket(a) => "http://{a}" }
host_origin(h) ==
    IF h.kind = "Name" THEN "http://" \o h.a
                       ELSE "http://" \o socket_to_string(h)

expected_origin_either_forwarded(req) ==
    IF is_some(req.forwarded_host)
    THEN (IF is_some(req.forwarded_proto)
          THEN to_str_or_default(unwrap(req.forwarded_proto)) ELSE "http")
             \o "://" \o to_str_or_default(unwrap(req.forwarded_host))
    ELSE host_origin(req.host)

expected_origin(req) ==
    IF is_some(req.forwarded_host) /\ is_some(req.forwarded_proto)
    THEN to_str_or_default(unwrap(req.forwarded_proto)) \o "://"
             \o to_str_or_default(unwrap(req.forwarded_host))
    ELSE host_origin(req.host)

\* headers.get_all(ORIGIN).iter().find(|h| h.to_str().unwrap_or_default() != expected)
bad_origin(req) ==
    LET bad == { i \in 1..Len(req.origin) :
                   to_str_or_default(req.origin[i]) # expected_origin(req) }
    IN  IF bad = {} THEN None
        ELSE Some(req.origin[CHOOSE i \in bad : \A j \in bad : i <= j])

origin_error_message(req) ==
    "only same-origin requests can be authenticated. expected "
        \o expected_origin(req) \o ", got " \o debug(unwrap(bad_origin(req)))

verify_origin(req) ==
    IF is_some(bad_origin(req))
    THEN chain_error(Err(internal(origin_error_message(req))), forbidden)
    ELSE Ok("unit")

----------------------------------------------------------------------------
(* authenticate.  Each path gives what the call returns, the calls it made  *)
(* on the request's headers and on its collaborators (with what each gave), *)
(* and the metadata it recorded.                                            *)

Call(op, arg, result) == [op |-> op, arg |-> arg, result |-> result]
Outcome(ret, cs, md) == [ret |-> ret, calls |-> cs, metadata |-> md]

\* log_request::add_custom_metadata(req, key, value)
add_custom_metadata(md, key, value) == Append(md, [key |-> key, value |-> value])

AuthenticatedUser(user_id, token_id) == [user_id |-> user_id, token_id |-> token_id]

\* self.extensions().find::<TrustedUserId>().map(|x| x.0)
trusted_user_id(ext) == ext.trusted

\* the if-branch: a trusted identity is in request-scoped storage
trusted_path(id) ==
    Outcome(Ok(AuthenticatedUser(id, None)), <<>>,
            add_custom_metadata(<<>>, "uid", id))

maybe_authorization_lossy(req) ==
    IF is_some(req.authorization)
    THEN Some(to_str_or_default(unwrap(req.authorization)))
    ELSE None

\* headers().get(AUTHORIZATION).and_then(|h| h.to_str().ok()).map(|h| h.to_string())
maybe_authorization(req) ==
    IF is_some(req.authorization) THEN to_str(unwrap(req.authorization)) ELSE None

user_of_token_swapped(token) == AuthenticatedUser(token.id, Some(token.user_id))

\* .map(|token| AuthenticatedUser { user_id: token.user_id, token_id: Some(token.id) })
user_of_token(token) == AuthenticatedUser(token.user_id, Some(token.id))

map_lookup_err_always_wrap(e) ==
    chain(chain(e, internal("invalid token")), forbidden)

\* .map_err(|e| if e.is::<InsecurelyGeneratedTokenRevoked>() { e } else { ... })
map_lookup_err(e) ==
    IF is_type(e, "InsecurelyGeneratedTokenRevoked") THEN e
    ELSE chain(chain(e, internal("invalid token")), forbidden)

\* user.token_id.unwrap_or(0)
unwrap_or_0(o) == IF is_some(o) THEN unwrap(o) ELSE 0

bearer_token_path_wrap_conn(header_value, conn, lookup) ==
    LET db == Call("db_conn", "", conn)
        find == Call("find_by_api_token", header_value, lookup)
    IN  IF ~conn.ok THEN Outcome(Err(map_lookup_err(conn.err)), <<db>>, <<>>)
        ELSE IF ~lookup.ok
        THEN Outcome(Err(map_lookup_err(lookup.err)), <<db, find>>, <<>>)
        ELSE LET user == user_of_token(lookup.val)
             IN  Outcome(Ok(user), <<db, find>>,
                         add_custom_metadata(
                             add_custom_metadata(<<>>, "uid", user.user_id),
                             "tokenid", unwrap_or_0(user.token_id)))

bearer_token_path_eager_metadata(header_value, conn, lookup) ==
    LET db == Call("db_conn", "", conn)
        find == Call("find_by_api_token", header_value, lookup)
    IN  IF ~conn.ok THEN Outcome(Err(conn.err), <<db>>, <<>>)
        ELSE IF ~lookup.ok
        THEN Outcome(Err(map_lookup_err(lookup.err)), <<db, find>>,
                     add_custom_metadata(<<>>, "uid", 0))
        ELSE LET user == user_of_token(lookup.val)
             IN  Outcome(Ok(user), <<db, find>>,
                         add_custom_metadata(
                             add_custom_metadata(<<>>, "uid", user.user_id),
                             "tokenid", unwrap_or_0(user.token_id)))

\* the branch taken with Some(header_value); conn and lookup are the results
\* db_conn() and ApiToken::find_by_api_token() give when called
bearer_token_path(header_value, conn, lookup) ==
    LET db == Call("db_conn", "", conn)
        find == Call("find_by_api_token", header_value, lookup)
    IN  IF ~conn.ok THEN Outcome(Err(conn.err), <<db>>, <<>>)
        ELSE IF ~lookup.ok
        THEN Outcome(Err(map_lookup_err(lookup.err)), <<db, find>>, <<>>)
        ELSE LET user == user_of_token(lookup.val)
             IN  Outcome(Ok(user), <<db, find>>,
                         add_custom_metadata(
                             add_custom_metadata(<<>>, "uid", user.user_id),
                             "tokenid", unwrap_or_0(user.token_id)))

no_credentials_internal_only ==
    Outcome(Err(internal("no cookie session or auth header found")), <<>>, <<>>)

\* Err(internal("no cookie session or auth header found")).chain_error(forbidden)
no_credentials ==
    Outcome(chain_error(Err(internal("no cookie session or auth header found")),
                        forbidden),
            <<>>, <<>>)

\* out, reached after `call` was made
after_call(call, out) == [out EXCEPT !.calls = <<call>> \o @]

header_path(req, conn, lookup) ==
    after_call(Call("headers.get", "authorization", req.authorization),
               IF is_some(maybe_authorization(req))
               THEN bearer_token_path(unwrap(maybe_authorization(req)), conn, lookup)
               ELSE no_credentials)

resolve_identity_header_first(req, ext, conn, lookup) ==
    IF is_some(maybe_authorization(req)) \/ ~is_some(trusted_user_id(ext))
    THEN header_path(req, conn, lookup)
    ELSE trusted_path(unwrap(trusted_user_id(ext)))

\* the body of authenticate() after verify_origin(self)?
resolve_identity(req, ext, conn, lookup) ==
    IF is_some(trusted_user_id(ext))
    THEN trusted_path(unwrap(trusted_user_id(ext)))
    ELSE header_path(req, conn, lookup)

authenticate_trusted_first(req, ext, conn, lookup) ==
    IF is_some(trusted_user_id(ext))
    THEN trusted_path(unwrap(trusted_user_id(ext)))
    ELSE IF ~verify_origin(req).ok
         THEN Outcome(Err(verify_origin(req).err), <<>>, <<>>)
         ELSE resolve_identity(req, ext, conn, lookup)

authenticate(req, ext, conn, lookup) ==
    IF ~verify_origin(req).ok
    THEN Outcome(Err(verify_origin(req).err), <<>>, <<>>)
    ELSE resolve_identity(req, ext, conn, lookup)

----------------------------------------------------------------------------
(* Spec: authenticate() called once on an arbitrary request. *)

MwInit ==
    /\ has_app = [r \in 1..NumRequests |-> FALSE]
    /\ alive = [r \in 1..NumRequests |-> TRUE]
    /\ last = [r \in 1..NumRequests |->
                 [op |-> "none", arg |-> "", during |-> "fresh", outcome |-> "none"]]
    /\ phase = [r \in 1..NumRequests |-> "fresh"]
    /\ strong_count = 1

Init ==
    /\ request \in Requests
    /\ extensions \in Extensions
    /\ returned = <<>>
    /\ calls = <<>>
    /\ metadata = <<>>
    /\ MwInit

Authenticate(conn, lookup) ==
    /\ returned = <<>>
    /\ LET out == authenticate(request, extensions, conn, lookup)
       IN  /\ returned' = <<out.ret>>
           /\ calls' = calls \o out.calls
           /\ metadata' = metadata \o out.metadata
    /\ UNCHANGED <<request, extensions>>
    /\ UNCHANGED mwVars

Next == \E conn \in ConnResults, lookup \in LookupResults : Authenticate(conn, lookup)

Spec == Init /\ [][Next]_vars

----------------------------------------------------------------------------
(* AppMiddleware and RequestApp::app(), on requests 1..NumRequests, each     *)
(* with extensions of its own.                                              *)

Responses == { "Ok(200 OK)", "Ok(404 Not Found)", "Err(handler failed)" }

MwCall(op, arg, during, outcome) ==
    [op |-> op, arg |-> arg, during |-> during, outcome |-> outcome]

\* req.mut_extensions().insert(Arc::clone(&self.app)): the slot is filled
insert_app(has) == TRUE

find_app(has) == has

\* req.mut_extensions().pop::<Arc<App>>(): the slot is emptied
pop_app(has) == FALSE

\* pop::<Arc<App>>().unwrap(); res
after_outcome(has, res) == IF has THEN res ELSE "panic"

\* self.extensions().find::<Arc<App>>().expect("Missing app")
app_outcome(has) == IF has THEN "&Arc<App>" ELSE "panic"

before(r) ==
    /\ alive[r]
    /\ has_app' = [has_app EXCEPT ![r] = insert_app(has_app[r])]
    /\ strong_count' = IF has_app[r] THEN strong_count ELSE strong_count + 1
    /\ last' = [last EXCEPT ![r] = MwCall("before", "", phase[r], "Ok(())")]
    /\ phase' = [phase EXCEPT ![r] = "inside"]
    /\ UNCHANGED alive

after(r, res) ==
    /\ alive[r]
    /\ has_app' = [has_app EXCEPT ![r] = pop_app(has_app[r])]
    /\ strong_count' = IF has_app[r] THEN strong_count - 1 ELSE strong_count
    /\ last' = [last EXCEPT ![r] =
                   MwCall("after", res, phase[r], after_outcome(has_app[r], res))]
    /\ alive' = [alive EXCEPT ![r] = after_outcome(has_app[r], res) # "panic"]
    /\ phase' = [phase EXCEPT ![r] = "finished"]

app(r) ==
    /\ alive[r]
    /\ last' = [last EXCEPT ![r] =
                   MwCall("app", "", phase[r], app_outcome(has_app[r]))]
    /\ alive' = [alive EXCEPT ![r] = app_outcome(has_app[r]) # "panic"]
    /\ UNCHANGED <<has_app, strong_count, phase>>

InitMw ==
    /\ request = [host |-> [kind |-> "Name", a |-> "localhost", port |-> 0],
                  forwarded_host |-> None, forwarded_proto |-> None,
                  origin |-> <<>>, authorization |-> None]
    /\ extensions = [trusted |-> None]
    /\ returned = <<>>
    /\ calls = <<>>
    /\ metadata = <<>>
    /\ MwInit

NextMw ==
    \E r \in 1..NumRequests :
        \/ before(r) /\ UNCHANGED authVars
        \/ (\E res \in Responses : after(r, res)) /\ UNCHANGED authVars
        \/ app(r) /\ UNCHANGED authVars

SpecMw == InitMw /\ [][NextMw]_vars

----------------------------------------------------------------------------
(* Vocabulary of the properties *)

Returned == returned # <<>>
ret == returned[1]

CallsOf(op) == { i \in 1..Len(calls) : calls[i].op = op }
Made(op) == CallsOf(op) # {}
ResultOf(op) == calls[CHOOSE i \in CallsOf(op) : TRUE].result

OriginOk == verify_origin(request).ok
HasTrusted == is_some(extensions.trusted)
Md(key, value) == [key |-> key, value |-> value]

\* The expected origin as the specification words it.
ConnectionHost(h) ==
    CASE h.kind = "Name" -> h.a
      [] h.kind = "Socket" -> h.a \o ":" \o ToString(h.port)
Decoded(h) == IF h.text THEN h.s ELSE ""
StatedExpectedOrigin(req) ==
    IF req.forwarded_host # None /\ req.forwarded_proto # None
    THEN Decoded(req.forwarded_proto[1]) \o "://" \o Decoded(req.forwarded_host[1])
    ELSE "http://" \o ConnectionHost(req.host)
EveryOriginMatches(req) ==
    \A i \in 1..Len(req.origin) : Decoded(req.origin[i]) = StatedExpectedOrigin(req)

----------------------------------------------------------------------------
\* C1: whenever authenticate() has returned on a request whose Origin check
\* fails, the return value is an error classified Forbidden, and no metadata
\* was recorded, no header of the identity paths was read, no database
\* connection acquired and no token looked up, whatever identity the request
\* carries.
C1_OriginFailureAbortsFirst ==
    (Returned /\ ~OriginOk) =>
        /\ ~ret.ok
        /\ classification(ret.err) = "Forbidden"
        /\ calls = <<>>
        /\ metadata = <<>>

\* C1 witness: a rejected request that carried a trusted identity and a
\* decodable Authorization token.
C1_Witness ==
    /\ Returned /\ ~OriginOk
    /\ HasTrusted
    /\ request.authorization = Some(Text("cio-token-a"))
    /\ ~ret.ok

\* C2: verify_origin succeeds exactly when every occurrence of the Origin
\* header (undecodable read as "") equals the expected origin: proto://host of
\* the forwarded headers when both are present, else http://{connection host};
\* a request without Origin header passes.
C2_VerifyOriginIffAllMatch ==
    /\ verify_origin(request).ok <=> EveryOriginMatches(request)
    /\ request.origin = <<>> => verify_origin(request).ok
    /\ (Returned /\ ~EveryOriginMatches(request)) => ~ret.ok

\* C2 witness: two matching Origin headers on a request with only one of the
\* forwarded headers, which authenticate() let through.
C2_Witness ==
    /\ Returned
    /\ Len(request.origin) = 2
    /\ request.forwarded_host # None /\ request.forwarded_proto = None
    /\ verify_origin(request).ok
    /\ ret.ok

\* C3: with the origin check passed and a trusted identity id in storage,
\* authenticate() returns Ok({user_id: id, token_id: None}), records exactly
\* "uid" = id, and neither reads the Authorization header nor calls db_conn or
\* the token lookup.
C3_TrustedIdentityFirst ==
    (Returned /\ OriginOk /\ HasTrusted) =>
        /\ ret = Ok(AuthenticatedUser(extensions.trusted[1], None))
        /\ metadata = <<Md("uid", extensions.trusted[1])>>
        /\ calls = <<>>

\* C3 witness: a trusted identity together with an Authorization header.
C3_Witness ==
    /\ Returned /\ OriginOk /\ HasTrusted
    /\ request.authorization = Some(Text("cio-token-a"))
    /\ ret.ok

\* C4: when the token lookup was made and gave token {id, user_id}, the call
\* returns Ok({user_id: token.user_id, token_id: Some(token.id)}) and records
\* "uid" = token.user_id then "tokenid" = token.id; and every successful call
\* has a token_id exactly when it went through the token lookup.
C4_TokenLookupSuccess ==
    /\ (Returned /\ Made("find_by_api_token") /\ ResultOf("find_by_api_token").ok) =>
          LET token == ResultOf("find_by_api_token").val
          IN  /\ ret = Ok(AuthenticatedUser(token.user_id, Some(token.id)))
              /\ metadata = <<Md("uid", token.user_id), Md("tokenid", token.id)>>
    /\ (Returned /\ ret.ok) =>
          /\ (ret.val.token_id # None) <=> Made("find_by_api_token")
          /\ (ret.val.token_id # None) <=> ~HasTrusted

\* C4 witness: the bearer-token path succeeded for user 7 with token 99.
C4_Witness ==
    /\ Returned /\ ret.ok
    /\ ret.val = AuthenticatedUser(7, Some(99))
    /\ Made("find_by_api_token")

UndecodableAuthorization ==
    /\ Returned /\ OriginOk /\ ~HasTrusted
    /\ request.authorization = Some(Opaque)

\* C6 as stated: on an undecodable Authorization header the call acquires a
\* database connection, looks the token up and fails with Forbidden over
\* Internal("invalid token"), as for an unmatched token.
C6_Original_UndecodableLookedUp ==
    UndecodableAuthorization =>
        /\ Made("db_conn")
        /\ ~ret.ok
        /\ classification(ret.err) = "Forbidden"
        /\ Len(ret.err) >= 2
        /\ ret.err[2] = [kind |-> "Internal", msg |-> "invalid token"]

\* C6 amended: an undecodable Authorization header is treated as an absent
\* one: the call fails with Forbidden over Internal("no cookie session or auth
\* header found"), with no database connection, no token lookup, no metadata.
C6_UndecodableTreatedAsAbsent ==
    UndecodableAuthorization =>
        /\ ret = Err(<<[kind |-> "Forbidden", msg |-> ""],
                       [kind |-> "Internal",
                        msg |-> "no cookie session or auth header found"]>>)
        /\ ~Made("db_conn")
        /\ ~Made("find_by_api_token")
        /\ metadata = <<>>

\* C6 witness: the call returned on an undecodable Authorization header.
C6_Witness == UndecodableAuthorization /\ ~ret.ok /\ Made("headers.get")

\* C7: origin check passed, no trusted identity, no Authorization header: the
\* call fails with Forbidden (over Internal("no cookie session or auth header
\* found")), without db_conn and without a token lookup.
C7_NoCredentialsForbidden ==
    (Returned /\ OriginOk /\ ~HasTrusted /\ request.authorization = None) =>
        /\ ~ret.ok
        /\ classification(ret.err) = "Forbidden"
        /\ ret.err[Len(ret.err)].msg = "no cookie session or auth header found"
        /\ ~Made("db_conn")
        /\ ~Made("find_by_api_token")

\* C7 witness: a request without credentials that passed two Origin headers.
C7_Witness ==
    /\ Returned /\ OriginOk /\ ~HasTrusted /\ request.authorization = None
    /\ Len(request.origin) = 2
    /\ ~ret.ok

C9_MetadataOnlyOnSuccess ==
    [][ (returned = <<>> /\ returned' # <<>>) =>
          /\ extensions' = extensions
          /\ request' = request
          /\ IF returned'[1].ok
             THEN /\ Len(metadata') >= Len(metadata)
                  /\ SubSeq(metadata', 1, Len(metadata)) = metadata
                  /\ [i \in 1..(Len(metadata') - Len(metadata)) |->
                         metadata'[Len(metadata) + i].key]
                       = IF is_some(extensions.trusted)
                         THEN <<"uid">> ELSE <<"uid", "tokenid">>
             ELSE metadata' = metadata ]_vars

\* C9 witness: a call that failed on the revoked signal, after db_conn and the
\* lookup, and left no metadata.
C9_Witness ==
    /\ Returned /\ ~ret.ok
    /\ Made("find_by_api_token")
    /\ ret = Err(Revoked)
    /\ metadata = <<>>

\* C10: in every interleaving, each request holds the handle exactly while it
\* is between its own before() and after(); app() called in between gives the
\* handle; after() called in between removes it and returns the response it
\* was given; after() or app() called outside panics and returns nothing.
C10_HandleHeldBetweenBeforeAndAfter ==
    \A r \in 1..NumRequests :
        /\ has_app[r] <=> phase[r] = "inside"
        /\ last[r].op = "app" =>
              /\ last[r].during = "inside" => last[r].outcome = "&Arc<App>"
              /\ last[r].during # "inside" => last[r].outcome = "panic"
        /\ last[r].op = "after" =>
              /\ ~has_app[r]
              /\ last[r].during = "inside" => last[r].outcome = last[r].arg
              /\ last[r].during # "inside" => last[r].outcome = "panic"
        /\ last[r].outcome = "panic" <=> ~alive[r]
        /\ strong_count = 1 + Cardinality({ q \in 1..NumRequests : has_app[q] })

\* C10 witness: request 1 was torn down with an error response passed through
\* while request 2 is still inside and its app() succeeded.
C10_Witness ==
    /\ last[1] = MwCall("after", "Err(handler failed)", "inside", "Err(handler failed)")
    /\ ~has_app[1]
    /\ has_app[2]
    /\ last[2] = MwCall("app", "", "inside", "&Arc<App>")

============================================================================
